---- MODULE Spec2Model ----
(***************************************************************************)
(* Model of the chat service: the Redis-backed room store                  *)
(* (RedisChatClient), the RabbitMQ bridge (ChatMessageBus) and the         *)
(* Socket.IO relay (ChatSocketHandler).                                    *)
(***************************************************************************)
EXTENDS Integers, Sequences, FiniteSets, TLC

\* ------------------------------------------------------------------------
\* Values shared by all parts
\* ------------------------------------------------------------------------

\* JavaScript undefined / null, and a key that is absent from Redis.
Undefined == "undefined"
Null == "null"

Rooms == {"R1", "R2"}
Users == {"u1", "u2"}

\* LTRIM key 0 99: the index of the last list entry that is kept.
TrimStop == 99

\* Number of entries LTRIM key 0 TrimStop keeps.
HistoryCap == TrimStop + 1

Min(a, b) == IF a <= b THEN a ELSE b

RECURSIVE Reverse(_)
\* Array.prototype.reverse
Reverse(s) == IF s = <<>> THEN <<>> ELSE Append(Reverse(Tail(s)), Head(s))

\* ------------------------------------------------------------------------
\* JSON text
\* ------------------------------------------------------------------------

\* The properties of the objects this service serializes that may hold
\* undefined (username is whatever the client sent with join-chat-room).
OptionalProps == {"username"}

\* JSON.stringify of an object: a property whose value is undefined is
\* omitted from the text.
JSONStringify(obj) ==
    [text |-> "json",
     value |-> [k \in {f \in DOMAIN obj :
                          ~(f \in OptionalProps /\ obj[f] = Undefined)} |-> obj[k]]]

\* The reply of Redis GET for a key that does not exist (null in JavaScript).
NilReply == [text |-> "nil", value |-> [raw |-> "nil"]]

\* A text that is not JSON (JSON.parse throws a SyntaxError on it).
Garbage == [text |-> "garbage", value |-> [raw |-> "garbage"]]

IsJSON(str) == str.text = "json"

\* JSON.parse of a text for which IsJSON holds.
JSONParse(str) == str.value

\* Reading property f of a parsed object: undefined when it has none.
Prop(obj, f) == IF f \in DOMAIN obj THEN obj[f] ELSE Undefined

\* ------------------------------------------------------------------------
\* Redis list commands, on the value stored at one key
\* ------------------------------------------------------------------------

\* A push to the tail of the list (RPUSH).
LPushAtTail(list, value) == list \o <<value>>

\* LPUSH key value
LPush(list, value) == <<value>> \o list

\* LTRIM that treats stop as the number of entries to drop from the count,
\* keeping one entry too many.
LTrimOffByOne(list, start, stop) ==
    SubSeq(list, start + 1, Min(stop + 2, Len(list)))

\* LTRIM key start stop, for 0 <= start (stop is inclusive)
LTrim(list, start, stop) == SubSeq(list, start + 1, Min(stop + 1, Len(list)))

\* LRANGE key 0 -1
LRangeAll(list) == list

\* getChatHistory without the final reverse: newest first, as stored.
GetChatHistoryNewestFirst(list) ==
    [i \in 1..Len(LRangeAll(list)) |-> JSONParse(LRangeAll(list)[i])]

\* getChatHistory: lrange, then map(JSON.parse), then reverse
GetChatHistory(list) ==
    Reverse([i \in 1..Len(LRangeAll(list)) |-> JSONParse(LRangeAll(list)[i])])

\* ------------------------------------------------------------------------
\* State
\* ------------------------------------------------------------------------

VARIABLES
    messages,     \* Redis list chat:room:<roomCode>:messages, newest first
    users,        \* Redis hash chat:room:<roomCode>:users, userId -> JSON text
    roomData,     \* the room snapshot kept by the game service, per room
    storeCalls,   \* storeChatMessage calls of the store clients, per client
    appended,     \* per room, how many messages were pushed so far
    lastHistory,  \* what the latest getChatHistory call returned
    calls,        \* the askGameService calls made so far, in call order
    ioReady,      \* socketSingleton.io is set (setup was called)
    joined,       \* per socket, the Socket.IO rooms it is in
    log,          \* what the service did so far: emits, acks, store commands
    sock,         \* per socket, its roomCode, userId and username properties
    connected,    \* per socket, whether its transport is still open
    tasks,        \* the socket event handlers started so far, in start order
    faults,       \* how many store commands were rejected so far
    broker        \* the call of connectWithRetry and the broker connections

vars == <<messages, users, roomData, storeCalls, appended, lastHistory, calls,
          ioReady, joined, log, sock, connected, tasks, faults, broker>>

\* The state of the socket handlers.
relayVars == <<sock, connected, tasks, faults>>

\* What the store clients of SpecStore never touch.
StoreFrame == <<calls, ioReady, joined, log, relayVars, broker>>

\* What the askGameService calls of SpecRpc never touch.
RpcFrame == <<messages, users, roomData, storeCalls, appended, lastHistory,
              ioReady, joined, log, relayVars, broker>>

\* What the lifecycle consumer of SpecBus never touches.
BusFrame == <<messages, users, roomData, storeCalls, appended, lastHistory,
              calls, joined, relayVars, broker>>

\* What the socket handlers of Spec never touch.
RelayFrame == <<roomData, storeCalls, appended, lastHistory, ioReady, broker>>

\* The store before anything was written: no list, no hash, no snapshot.
StoreInit ==
    /\ messages = [r \in Rooms |-> <<>>]
    /\ users = [r \in Rooms |-> [u \in {} |-> Undefined]]
    /\ roomData = [r \in Rooms |-> NilReply]

\* connectWithRetry(maxRetries = 5, retryDelay = 5000)
DefaultMaxRetries == 5

DefaultRetryDelay == 5000

\* The awaited calls of one connection attempt, in the order of the code.
Steps == <<"connect", "createChannel", "assertExchange game.events",
           "assertExchange game.requests", "assertExchange game.responses",
           "assertQueue", "bindQueue", "consume">>

NoError == [attempt |-> 0, step |-> 0]

\* The message bus after connectWithRetry returned from a first attempt that
\* succeeded: one connection, held in this.connection.
BrokerUp ==
    broker = [maxRetries |-> DefaultMaxRetries, retryDelay |-> DefaultRetryDelay,
              pc |-> "returned", attempt |-> 1, step |-> Len(Steps),
              connection |-> 1, open |-> {1}, failed |-> <<>>, slept |-> 0,
              thrown |-> NoError]

\* ------------------------------------------------------------------------
\* RedisChatClient used by several handlers at once (SpecStore)
\* ------------------------------------------------------------------------

\* Handlers (of this or another relay instance) that call the store.
StoreClients == {"h1", "h2"}

\* Total number of storeChatMessage calls made in one behaviour.
MaxAppends == 102

Idle == [pc |-> "idle", room |-> Null]

NoHistory == [room |-> Null, messages |-> <<>>, quiet |-> FALSE]

\* The k-th chat message stored for room r.
StoredMessage(r, k) ==
    [id |-> k, userId |-> "u1", username |-> "Ann", message |-> <<"h", "i">>,
     timestamp |-> k, type |-> "message"]

TotalAppended == appended["R1"] + appended["R2"]

ClientInit ==
    /\ storeCalls = [c \in StoreClients |-> Idle]
    /\ appended = [r \in Rooms |-> 0]
    /\ lastHistory = NoHistory

\* storeChatMessage, first command: LPUSH of the JSON text.
StorePush(c, r) ==
    /\ storeCalls[c].pc = "idle"
    /\ TotalAppended < MaxAppends
    /\ messages' = [messages EXCEPT
           ![r] = LPush(@, JSONStringify(StoredMessage(r, appended[r] + 1)))]
    /\ appended' = [appended EXCEPT ![r] = @ + 1]
    /\ storeCalls' = [storeCalls EXCEPT ![c] = [pc |-> "pushed", room |-> r]]
    /\ lastHistory' = NoHistory
    /\ UNCHANGED <<users, roomData, StoreFrame>>

\* storeChatMessage, second command: LTRIM key 0 99; the call then returns.
StoreTrim(c) ==
    /\ storeCalls[c].pc = "pushed"
    /\ messages' = [messages EXCEPT
           ![storeCalls[c].room] = LTrim(@, 0, TrimStop)]
    /\ storeCalls' = [storeCalls EXCEPT ![c] = Idle]
    /\ lastHistory' = NoHistory
    /\ UNCHANGED <<users, roomData, appended, StoreFrame>>

\* No storeChatMessage call is between its two commands.
Quiescent == \A c \in StoreClients : storeCalls[c].pc = "idle"

\* getChatHistory(r) called and answered in the current state of the store.
HistoryRead(r) ==
    /\ lastHistory.room # r
    /\ lastHistory' = [room |-> r, messages |-> GetChatHistory(messages[r]),
                       quiet |-> Quiescent]
    /\ UNCHANGED <<messages, users, roomData, storeCalls, appended, StoreFrame>>

NextStore ==
    \/ \E c \in StoreClients, r \in Rooms : StorePush(c, r)
    \/ \E c \in StoreClients : StoreTrim(c)
    \/ \E r \in Rooms : HistoryRead(r)

RpcInit == calls = <<>>

Sockets == {"s1", "s2"}

\* No socket is connected to a room and nothing was done yet.
QuietInit ==
    /\ joined = [s \in Sockets |-> {}]
    /\ log = <<>>
    /\ sock = [s \in Sockets |->
           [roomCode |-> Undefined, userId |-> Undefined, username |-> Undefined]]
    /\ connected = [s \in Sockets |-> TRUE]
    /\ tasks = <<>>
    /\ faults = 0

InitStore ==
    StoreInit /\ ClientInit /\ RpcInit /\ QuietInit /\ ioReady = TRUE /\ BrokerUp

SpecStore == InitStore /\ [][NextStore]_vars

\* ------------------------------------------------------------------------
\* Socket.IO emits
\* ------------------------------------------------------------------------

HasProp(obj, f) == f \in DOMAIN obj

\* An emit to a room that does not leave out the emitting socket.
EmitToRoomAll(task, room, except, event, payload) ==
    [task |-> task, op |-> "emit", event |-> event, to |-> room,
     except |-> "none",
     recipients |-> {s \in Sockets : room \in joined[s]},
     payload |-> payload]

\* io.to(room).emit(event, payload) (except = "none") and
\* socket.to(room).emit(event, payload) (except = the socket): the sockets
\* that are in the room when the emit is made receive it.
EmitToRoom(task, room, except, event, payload) ==
    [task |-> task, op |-> "emit", event |-> event, to |-> room,
     except |-> except,
     recipients |-> {s \in Sockets : room \in joined[s]} \ {except},
     payload |-> payload]

\* socket.emit(event, payload)
EmitToSocket(task, s, event, payload) ==
    [task |-> task, op |-> "emit", event |-> event, to |-> s,
     except |-> "none", recipients |-> {s}, payload |-> payload]

\* ------------------------------------------------------------------------
\* ChatMessageBus: the consumer of chat.game.events (SpecBus)
\* ------------------------------------------------------------------------

\* Number of lifecycle messages delivered in one behaviour.
MaxEvents == 2

EventTypes == {"game-started", "game-ended", "correct-guess", "new-round",
               "game-restarted", "player-joined"}

EventData == {[userId |-> "u1"],
              [userId |-> "u1", message |-> <<"p", "t", "s">>],
              [userId |-> "u1", message |-> <<>>],
              [round |-> 3]}

\* The message contents the broker may deliver: envelopes with and without
\* data, and a text that does not parse.
EventTexts ==
    {JSONStringify([type |-> t, roomCode |-> r, data |-> d]) :
        t \in EventTypes, r \in Rooms, d \in EventData}
    \cup {JSONStringify([type |-> t, roomCode |-> r]) : t \in EventTypes, r \in Rooms}
    \cup {Garbage}

\* A switch that knows game-started and game-ended only and sets the flag
\* for both.
DispatchStartedOnly(event) ==
    IF event.type \in {"game-started", "game-ended"}
    THEN <<EmitToRoom(0, event.roomCode, "none", "game-mode-changed",
               [isGameStarted |-> TRUE,
                message |-> "Game started! Your messages will be treated as guesses."])>>
    ELSE <<>>

\* The emit handleGameEvent makes for a parsed event, as a sequence of zero
\* or one log entries; a TypeError on data.message or data.round of an event
\* without data ends the switch with nothing emitted, and so does a
\* data.message that is the empty string.
Dispatch(event) ==
    CASE event.type = "game-started" ->
            <<EmitToRoom(0, event.roomCode, "none", "game-mode-changed",
                  [isGameStarted |-> TRUE,
                   message |-> "Game started! Your messages will be treated as guesses."])>>
      [] event.type = "game-ended" ->
            <<EmitToRoom(0, event.roomCode, "none", "game-mode-changed",
                  [isGameStarted |-> FALSE,
                   message |-> "Game ended! Back to chat mode."])>>
      [] event.type = "correct-guess" ->
            IF HasProp(event, "data") /\ HasProp(event.data, "message")
               /\ event.data.message # <<>>
            THEN <<EmitToRoom(0, event.roomCode, "none", "chat-message",
                      [id |-> <<"points", Prop(event.data, "userId")>>,
                       userId |-> "system", username |-> "System",
                       message |-> event.data.message, type |-> "system"])>>
            ELSE <<>>
      [] event.type = "new-round" ->
            IF ~HasProp(event, "data") THEN <<>>
            ELSE IF HasProp(event.data, "round")
            THEN <<EmitToRoom(0, event.roomCode, "none", "new-round",
                      [round |-> event.data.round,
                       message |-> "New round started! Chat cleared."])>>
            ELSE <<EmitToRoom(0, event.roomCode, "none", "new-round",
                      [message |-> "New round started! Chat cleared."])>>
      [] event.type = "game-restarted" ->
            <<EmitToRoom(0, event.roomCode, "none", "game-restarted",
                  [message |-> "Game restarted! Chat cleared."])>>
      [] OTHER -> <<>>

\* handleGameEvent(msg): everything runs inside try/catch, so a text that does
\* not parse and a getIO() that throws (setup not called yet) end in the catch
\* block and the function returns normally.
HandleGameEvent(text) ==
    IF ~IsJSON(text) THEN <<>>
    ELSE IF ~ioReady THEN <<>>
    ELSE Dispatch(JSONParse(text))

\* A consumer callback that acknowledges before it dispatches.
ConsumerCallbackAckFirst(tag, text) ==
    <<[task |-> 0, op |-> "ack", tag |-> tag]>>
        \o HandleGameEvent(text)
        \o <<[task |-> 0, op |-> "handled", tag |-> tag]>>

\* The consumer callback of chat.game.events on delivery tag with content
\* text: handleGameEvent(msg), then channel.ack(msg).
ConsumerCallback(tag, text) ==
    HandleGameEvent(text)
        \o <<[task |-> 0, op |-> "handled", tag |-> tag]>>
        \o <<[task |-> 0, op |-> "ack", tag |-> tag]>>

\* Delivery tags handed out so far.
Deliveries == {k \in 1..Len(log) : log[k].op = "deliver"}

\* The event parsed from a text that is JSON.
EventOf(text) == JSONParse(text)

\* A consumer that empties the list of the room on the events whose notice
\* says that the chat was cleared.
MessagesClearedByEvent(text) ==
    IF IsJSON(text) /\ EventOf(text).type \in {"new-round", "game-restarted"}
    THEN [messages EXCEPT ![EventOf(text).roomCode] = <<>>]
    ELSE messages

\* The lists of the store after the callback ran on text: handleGameEvent
\* and the callback make no call on the store client.
MessagesAfterEvent(text) == messages

\* The broker delivers a lifecycle message and the callback runs; the
\* delivery is logged with whether socketSingleton.io was set by then.
ConsumeGameEvent(text) ==
    /\ Cardinality(Deliveries) < MaxEvents
    /\ log' = log
           \o <<[task |-> 0, op |-> "deliver",
                 tag |-> Cardinality(Deliveries) + 1, text |-> text,
                 io |-> ioReady]>>
           \o ConsumerCallback(Cardinality(Deliveries) + 1, text)
    /\ messages' = MessagesAfterEvent(text)
    /\ UNCHANGED <<ioReady, users, roomData, storeCalls, appended, lastHistory,
                   calls, joined, relayVars, broker>>

\* socketSingleton.setup(server), called after messageBus.initialize().
SetupSocket ==
    /\ ~ioReady
    /\ ioReady' = TRUE
    /\ UNCHANGED <<log, BusFrame>>

NextBus ==
    \/ \E text \in EventTexts : ConsumeGameEvent(text)
    \/ SetupSocket

\* The room each socket of a running service is in, and its user.
HomeRoom == [s \in Sockets |-> IF s = "s1" THEN "R1" ELSE "R2"]

HomeUser == [s \in Sockets |-> IF s = "s1" THEN "u1" ELSE "u2"]

\* The consumer has just been registered, during startup before
\* socketSingleton.setup(server) is called and no socket exists, or the
\* service is running with s1 in R1 and s2 in R2. In both cases the store
\* holds what earlier handlers wrote: a message of R1 and the members.
InitBus ==
    /\ ClientInit /\ RpcInit /\ BrokerUp
    /\ roomData = [r \in Rooms |-> NilReply]
    /\ messages = [r \in Rooms |->
           IF r = "R1" THEN <<JSONStringify(StoredMessage(r, 1))>> ELSE <<>>]
    /\ users = [r \in Rooms |->
           [u \in {HomeUser[s] : s \in {x \in Sockets : HomeRoom[x] = r}} |->
               JSONStringify([username |-> <<"A", "n">>, socketId |-> "s",
                              joinedAt |-> "then"])]]
    /\ log = <<>> /\ tasks = <<>> /\ faults = 0
    /\ connected = [s \in Sockets |-> TRUE]
    /\ \/ /\ ioReady = FALSE
          /\ joined = [s \in Sockets |-> {}]
          /\ sock = [s \in Sockets |->
                 [roomCode |-> Undefined, userId |-> Undefined,
                  username |-> Undefined]]
       \/ /\ ioReady = TRUE
          /\ joined = [s \in Sockets |-> {HomeRoom[s]}]
          /\ sock = [s \in Sockets |->
                 [roomCode |-> HomeRoom[s], userId |-> HomeUser[s],
                  username |-> <<"A", "n">>]]

SpecBus == InitBus /\ [][NextBus]_vars

\* ------------------------------------------------------------------------
\* ChatMessageBus.connectWithRetry (SpecConnect)
\* ------------------------------------------------------------------------

\* What connectWithRetry never touches.
ConnectFrame == <<messages, users, roomData, storeCalls, appended, lastHistory,
                  calls, ioReady, joined, log, relayVars>>

\* A test that takes the attempt before the last one for the last.
IsLastAttemptOffByOne(attempt, maxRetries) == attempt = maxRetries - 1

\* if (attempt === maxRetries)
IsLastAttempt(attempt, maxRetries) == attempt = maxRetries

\* for (let attempt = 1; attempt <= maxRetries; attempt++): the loop is
\* entered, or entered again, with attempt; without another pass the
\* function ends.
EnterLoop(b, attempt) ==
    IF attempt <= b.maxRetries
    THEN [b EXCEPT !.pc = "attempting", !.attempt = attempt, !.step = 1]
    ELSE [b EXCEPT !.pc = "returned", !.attempt = attempt, !.step = 0]

\* initialize() calls connectWithRetry().
ConnectWithRetry ==
    /\ broker.pc = "idle"
    /\ broker' = EnterLoop(broker, 1)
    /\ UNCHANGED ConnectFrame

\* The call the attempt awaits is answered: amqp.connect opens a connection
\* and this.connection holds it; after channel.consume the function returns.
StepSucceeds ==
    /\ broker.pc = "attempting"
    /\ LET opened == IF Steps[broker.step] = "connect"
                     THEN [broker EXCEPT !.connection = broker.attempt,
                                         !.open = @ \cup {broker.attempt}]
                     ELSE broker
       IN  broker' = IF broker.step = Len(Steps)
                     THEN [opened EXCEPT !.pc = "returned"]
                     ELSE [opened EXCEPT !.step = @ + 1]
    /\ UNCHANGED ConnectFrame

\* The call the attempt awaits is rejected, with the connection of the
\* attempt lost (closed) or not. The catch block throws the error after the
\* last attempt and sets the timer of retryDelay otherwise; it closes
\* nothing.
StepFails(closed) ==
    /\ broker.pc = "attempting"
    /\ Steps[broker.step] = "connect" => ~closed
    /\ LET error == [attempt |-> broker.attempt, step |-> broker.step]
           caught == [broker EXCEPT
                         !.failed = Append(@, error),
                         !.open = IF closed THEN @ \ {broker.attempt} ELSE @]
       IN  broker' = IF IsLastAttempt(broker.attempt, broker.maxRetries)
                     THEN [caught EXCEPT !.pc = "thrown", !.thrown = error]
                     ELSE [caught EXCEPT !.pc = "sleeping"]
    /\ UNCHANGED ConnectFrame

\* The timer of retryDelay fires: attempt++ and the loop test.
BackoffElapsed ==
    /\ broker.pc = "sleeping"
    /\ broker' = EnterLoop([broker EXCEPT !.slept = @ + broker.retryDelay],
                           broker.attempt + 1)
    /\ UNCHANGED ConnectFrame

NextConnect ==
    \/ ConnectWithRetry
    \/ StepSucceeds
    \/ \E closed \in BOOLEAN : StepFails(closed)
    \/ BackoffElapsed

\* The message bus as constructed (connection null), about to be
\* initialized; connectWithRetry is only called with its defaults, and
\* smaller numbers of attempts are looked at as well.
InitConnect ==
    /\ StoreInit /\ ClientInit /\ RpcInit /\ QuietInit /\ ioReady = FALSE
    /\ broker \in [maxRetries : 1..DefaultMaxRetries, retryDelay : {DefaultRetryDelay},
                   pc : {"idle"}, attempt : {0}, step : {0}, connection : {0},
                   open : {{}}, failed : {<<>>}, slept : {0}, thrown : {NoError}]

SpecConnect == InitConnect /\ [][NextConnect]_vars

\* ------------------------------------------------------------------------
\* Properties of the store (SpecStore)
\* ------------------------------------------------------------------------

\* storeChatMessage calls on room r that pushed and did not trim yet.
InFlight(r) ==
    Cardinality({c \in StoreClients :
                    storeCalls[c].pc = "pushed" /\ storeCalls[c].room = r})

\* C1, as claimed: in every reachable state, the states between the push and
\* the trim of storeChatMessage included, every room's list holds at most 100
\* entries and getChatHistory returns at most 100 messages.
C1_CapInEveryState ==
    /\ \A r \in Rooms : Len(messages[r]) <= HistoryCap
    /\ Len(lastHistory.messages) <= HistoryCap

\* C1, amended: a room's list exceeds 100 entries by at most the number of
\* storeChatMessage calls on that room that pushed and did not trim yet, and
\* so does what getChatHistory returns; with no such call in flight both hold
\* at most 100 entries.
C1_CapUpToInFlight ==
    /\ \A r \in Rooms : Len(messages[r]) <= HistoryCap + InFlight(r)
    /\ lastHistory.room # Null =>
           Len(lastHistory.messages) <= HistoryCap + InFlight(lastHistory.room)

\* C1 witness: more than 100 messages were pushed to a room, no call is in
\* flight, and getChatHistory has just returned exactly 100 messages.
C1_Witness ==
    /\ lastHistory.room = "R1"
    /\ Quiescent
    /\ appended["R1"] > HistoryCap
    /\ Len(lastHistory.messages) = HistoryCap
    /\ Len(messages["R1"]) = HistoryCap

\* The messages getChatHistory is to return for room r after n appends: the
\* last min(n, 100) appended ones, oldest first.
ExpectedHistory(r, n) ==
    [i \in 1..Min(n, HistoryCap) |-> StoredMessage(r, n - Min(n, HistoryCap) + i)]

\* C2: when getChatHistory is called for a room while no storeChatMessage
\* call is in flight, after N completed appends, it returns the min(N, 100)
\* most recently appended messages in append order (all N when N <= 100, the
\* empty sequence when N = 0).
C2_HistoryIsLastHundred ==
    (lastHistory.room # Null /\ lastHistory.quiet) =>
        lastHistory.messages =
            ExpectedHistory(lastHistory.room, appended[lastHistory.room])

\* C2 witness: getChatHistory returned after more than 100 completed appends
\* to the room.
C2_Witness ==
    /\ lastHistory.room = "R2"
    /\ lastHistory.quiet
    /\ appended["R2"] = HistoryCap + 2
    /\ Len(lastHistory.messages) = HistoryCap
    /\ lastHistory.messages[1].id = 3

\* C20: with the pushes and trims of several storeChatMessage calls on a
\* room interleaved in any order, the list of the room always consists of the
\* most recently pushed messages in push order, newest at the head; none of
\* the 100 most recently pushed is missing from it; and once no call is
\* between its push and its trim it holds min(total pushed, 100) entries.
C20_InterleavedStoresKeepNewest ==
    \A r \in Rooms :
        LET n == appended[r]
            len == Len(messages[r])
        IN  /\ len <= n
            /\ messages[r] =
                   [k \in 1..len |-> JSONStringify(StoredMessage(r, n - k + 1))]
            /\ len >= Min(n, HistoryCap)
            /\ InFlight(r) = 0 => len = Min(n, HistoryCap)

\* Two calls on R1 ran interleaved: both pushed onto a full list, one has
\* trimmed the list to 100 entries and the other has its trim still to come.
C20_Witness ==
    /\ storeCalls["h1"] = [pc |-> "pushed", room |-> "R1"]
    /\ storeCalls["h2"].pc = "idle"
    /\ appended["R1"] = HistoryCap + 2
    /\ Len(messages["R1"]) = HistoryCap

\* ------------------------------------------------------------------------
\* ChatMessageBus.askGameService (SpecRpc)
\* ------------------------------------------------------------------------

\* setTimeout(..., 1000): the delay of the reply timer, in milliseconds.
RpcTimeoutMs == 1000

\* Number of askGameService calls in one behaviour.
MaxCalls == 1

\* Number of messages put on the reply queues in one behaviour.
MaxReplies == 2

\* The largest step of the clock, in milliseconds: half the timeout.
TickMs == RpcTimeoutMs \div 2

\* The time a call is followed while it waits for the queue declaration.
MaxDeclareMs == RpcTimeoutMs

\* The value returned on timeout and on a transport error.
DefaultResponse == [isGameActive |-> FALSE, isCorrect |-> FALSE]

\* Response data the game service may send.
ResponseData == {[isGameActive |-> TRUE, isCorrect |-> TRUE]}

\* Response data of a response that answers somebody else's request.
ForeignData == [isGameActive |-> TRUE, isCorrect |-> FALSE]

\* requestId of the i-th call: `${Date.now()}-${Math.random()}`; the random
\* part is taken to differ between any two calls.
RequestId(i) == <<"request", i>>

\* A correlation id that belongs to no call of this service.
ForeignId == <<"request", 0>>

\* replyQueue = `chat.response.${requestId}`
ReplyQueueName(i) == <<"chat.response", RequestId(i)>>

\* The request object published to game.requests (its timestamp left out).
Request(i, action, data) ==
    [id |-> RequestId(i), action |-> action, data |-> data,
     replyTo |-> ReplyQueueName(i)]

\* A response of the game service, as the text put on the reply queue.
ResponseText(id, data) == JSONStringify([requestId |-> id, data |-> data])

\* What the game service (or anyone else) may put on the reply queue of call i.
ReplyTexts(i) ==
    {ResponseText(RequestId(i), d) : d \in ResponseData}
        \cup {ResponseText(ForeignId, ForeignData)}
        \cup {Garbage}

\* A call that has just been made: assertQueue was sent and is awaited.
NewCall(action, data) ==
    [pc |-> "declaring",      \* declaring, waiting, returned, crashed
     action |-> action,
     data |-> data,
     queue |-> FALSE,         \* the reply queue exists on the broker
     published |-> FALSE,     \* the request was published
     consumer |-> "none",     \* none, requested, active, failed
     timer |-> "none",        \* none, armed, fired, cleared
     remaining |-> 0,         \* ms until the armed timer fires
     result |-> <<>>,         \* <<v>> once the returned promise settled with v
     resolves |-> <<>>,       \* the values resolve() was called with, in order
     ready |-> <<>>,          \* texts on the reply queue, not yet delivered
     delivered |-> <<>>,      \* deliveries to the consumer, with their outcome
     elapsed |-> 0]           \* ms since the call, until it returns

\* resolve(v) of the promise created in askGameService: only the first call
\* settles it.
Resolve(call, v) ==
    [call EXCEPT !.result = IF @ = <<>> THEN <<v>> ELSE @,
                 !.pc = "returned",
                 !.resolves = Append(@, v)]

\* return v from the catch block: the async function's promise settles with v.
ReturnFromCatch(call, v) ==
    [call EXCEPT !.result = <<v>>, !.pc = "returned"]

\* askGameService(action, data) is called: requestId and replyQueue are
\* computed and channel.assertQueue is sent; the call awaits its answer.
AskGameService(action, data) ==
    /\ Len(calls) < MaxCalls
    /\ calls' = Append(calls, NewCall(action, data))
    /\ UNCHANGED RpcFrame

\* assertQueue is answered: the request is published, then the promise is
\* created: the timer is armed and channel.consume is sent.
AssertQueueOk(i) ==
    /\ calls[i].pc = "declaring"
    /\ calls' = [calls EXCEPT ![i] =
           [@ EXCEPT !.pc = "waiting", !.queue = TRUE, !.published = TRUE,
                     !.timer = "armed", !.remaining = RpcTimeoutMs,
                     !.consumer = "requested"]]
    /\ UNCHANGED RpcFrame

\* assertQueue is rejected (channel closed, broker error): the catch block
\* returns the default.
AssertQueueFails(i) ==
    /\ calls[i].pc = "declaring"
    /\ calls' = [calls EXCEPT ![i] = ReturnFromCatch(@, DefaultResponse)]
    /\ UNCHANGED RpcFrame

\* assertQueue is answered but channel.publish throws: the catch block
\* returns the default; the declared queue stays.
PublishThrows(i) ==
    /\ calls[i].pc = "declaring"
    /\ calls' = [calls EXCEPT ![i] =
           ReturnFromCatch([@ EXCEPT !.queue = TRUE], DefaultResponse)]
    /\ UNCHANGED RpcFrame

\* The broker registers the consumer that channel.consume asked for.
ConsumeOk(i) ==
    /\ calls[i].consumer = "requested"
    /\ calls' = [calls EXCEPT ![i] = [@ EXCEPT !.consumer = "active"]]
    /\ UNCHANGED RpcFrame

RECURSIVE RepliesUpTo(_)
\* Number of messages put so far on the reply queues of the first n calls.
RepliesUpTo(n) ==
    IF n = 0 THEN 0
    ELSE RepliesUpTo(n - 1) + Len(calls[n].ready) + Len(calls[n].delivered)

\* A message is put on the reply queue of call i.
GameServiceReplies(i, text) ==
    /\ calls[i].published
    /\ calls[i].queue
    /\ RepliesUpTo(Len(calls)) < MaxReplies
    /\ calls' = [calls EXCEPT ![i] = [@ EXCEPT !.ready = Append(@, text)]]
    /\ UNCHANGED RpcFrame

\* The consumer callback without the requestId comparison.
OnReplyAnyId(i, call, text) ==
    IF IsJSON(text)
    THEN [Resolve(call, Prop(JSONParse(text), "data"))
             EXCEPT !.timer = IF @ = "armed" THEN "cleared" ELSE @,
                    !.delivered = Append(@, [text |-> text, outcome |-> "ack"])]
    ELSE [call EXCEPT
             !.delivered = Append(@, [text |-> text, outcome |-> "nack"])]

\* The consumer callback of the reply queue, run on one delivered text.
OnReply(i, call, text) ==
    IF IsJSON(text)
    THEN IF Prop(JSONParse(text), "requestId") = RequestId(i)
         THEN [Resolve(call, Prop(JSONParse(text), "data"))
                  EXCEPT !.timer = IF @ = "armed" THEN "cleared" ELSE @,
                         !.delivered =
                             Append(@, [text |-> text, outcome |-> "ack"])]
         ELSE [call EXCEPT
                  !.delivered = Append(@, [text |-> text, outcome |-> "none"])]
    ELSE [call EXCEPT
             !.delivered = Append(@, [text |-> text, outcome |-> "nack"])]

\* The broker delivers the next text of the reply queue to the consumer.
DeliverReply(i) ==
    /\ calls[i].consumer = "active"
    /\ calls[i].ready # <<>>
    /\ calls' = [calls EXCEPT ![i] =
           OnReply(i, [@ EXCEPT !.ready = Tail(@)], Head(calls[i].ready))]
    /\ UNCHANGED RpcFrame

\* The timer callback: resolve with the default.
OnTimeout(call) == [Resolve(call, DefaultResponse) EXCEPT !.timer = "fired"]

\* The reply timer of call i fires.
TimerFires(i) ==
    /\ calls[i].timer = "armed"
    /\ calls[i].remaining = 0
    /\ calls' = [calls EXCEPT ![i] = OnTimeout(@)]
    /\ UNCHANGED RpcFrame

\* The process ends while the call is under way: the call never returns, its
\* timer is gone, and the broker drops the exclusive queue of the connection.
Crash(call) ==
    [call EXCEPT !.pc = IF @ \in {"declaring", "waiting"} THEN "crashed" ELSE @,
                 !.timer = IF @ = "armed" THEN "none" ELSE @,
                 !.consumer = IF @ = "failed" THEN @ ELSE "none",
                 !.queue = FALSE]

\* channel.consume is rejected (the channel or the connection fails before
\* the broker has registered the consumer). The promise channel.consume
\* returned is neither awaited nor given a handler, so the rejection is an
\* unhandled one: the runtime either reports it and goes on, and the call
\* waits for its timer, or it ends the process (fatal), as Node.js 15 and
\* later do with a native promise when no unhandledRejection handler is set.
ConsumeFails(i, fatal) ==
    /\ calls[i].consumer = "requested"
    /\ calls[i].pc = "waiting"
    /\ calls' = [j \in 1..Len(calls) |->
           LET failed == IF j = i THEN [calls[j] EXCEPT !.consumer = "failed"]
                         ELSE calls[j]
           IN  IF fatal THEN Crash(failed) ELSE failed]
    /\ UNCHANGED RpcFrame

Pending(call) == call.pc \in {"declaring", "waiting"}

ArmedRemaining == {calls[i].remaining : i \in {j \in 1..Len(calls) : calls[j].timer = "armed"}}

\* How far the clock may advance: up to the next timer that is due.
Step == IF ArmedRemaining = {}
        THEN TickMs
        ELSE Min(TickMs, CHOOSE m \in ArmedRemaining : \A n \in ArmedRemaining : m <= n)

\* Time passes, but not past a timer that is due.
Tick ==
    /\ \E i \in 1..Len(calls) : Pending(calls[i])
    /\ Step > 0
    /\ calls' = [i \in 1..Len(calls) |->
           [calls[i] EXCEPT
               !.remaining = IF calls[i].timer = "armed" THEN @ - Step ELSE @,
               !.elapsed = IF calls[i].pc = "declaring"
                           THEN Min(@ + Step, MaxDeclareMs)
                           ELSE IF calls[i].pc = "waiting" THEN @ + Step ELSE @]]
    /\ calls' # calls
    /\ UNCHANGED RpcFrame

NextRpc ==
    \/ AskGameService("check-guess", [roomCode |-> "R1", userId |-> "u1"])
    \/ \E i \in 1..Len(calls) : AssertQueueOk(i)
    \/ \E i \in 1..Len(calls) : AssertQueueFails(i)
    \/ \E i \in 1..Len(calls) : PublishThrows(i)
    \/ \E i \in 1..Len(calls) : ConsumeOk(i)
    \/ \E i \in 1..Len(calls), fatal \in BOOLEAN : ConsumeFails(i, fatal)
    \/ \E i \in 1..Len(calls) : \E text \in ReplyTexts(i) : GameServiceReplies(i, text)
    \/ \E i \in 1..Len(calls) : DeliverReply(i)
    \/ \E i \in 1..Len(calls) : TimerFires(i)
    \/ Tick

InitRpc ==
    StoreInit /\ ClientInit /\ RpcInit /\ QuietInit /\ ioReady = TRUE /\ BrokerUp

SpecRpc == InitRpc /\ [][NextRpc]_vars

\* The answer to assertQueue arrives, as a success or as an error.
DeclareAnswered ==
    \E i \in 1..Len(calls) : AssertQueueOk(i) \/ AssertQueueFails(i) \/ PublishThrows(i)

TimerDue == \E i \in 1..Len(calls) : TimerFires(i)

\* Time passes, a due timer callback is run by the event loop, and the
\* broker (or the failure of its connection) answers a queue declaration.
SpecRpcFair ==
    SpecRpc /\ WF_vars(Tick) /\ WF_vars(TimerDue) /\ WF_vars(DeclareAnswered)

\* ------------------------------------------------------------------------
\* JavaScript strings, as sequences of characters
\* ------------------------------------------------------------------------

\* String.prototype.toLowerCase on one character of the model's alphabet.
Lower(c) == CASE c = "A" -> "a" [] c = "B" -> "b" [] OTHER -> c

ToLowerCase(str) == [i \in 1..Len(str) |-> Lower(str[i])]

RECURSIVE TrimStart(_)
TrimStart(str) ==
    IF str # <<>> /\ Head(str) = " " THEN TrimStart(Tail(str)) ELSE str

\* String.prototype.trim
Trim(str) == Reverse(TrimStart(Reverse(TrimStart(str))))

\* str includes sub as a substring.
Includes(str, sub) ==
    \E i \in 1..(Len(str) - Len(sub) + 1) : SubSeq(str, i, i + Len(sub) - 1) = sub

\* A currentWord that is null, and one that is a string.
JsNull == [t |-> "null", v |-> <<>>]

JsString(chars) == [t |-> "string", v |-> chars]

\* Truthiness of a value that is null or a string.
Truthy(x) == x.t = "string" /\ x.v # <<>>

\* A username that is undefined; in a template string it prints as such.
UndefinedName == <<"undefined">>

\* ------------------------------------------------------------------------
\* ChatSocketHandler (Spec)
\* ------------------------------------------------------------------------

\* Number of socket events handled in one behaviour.
MaxTasks == 3

\* Number of handlers that are between two awaits at the same time.
MaxInFlight == 2

\* Number of store commands that are rejected in one behaviour.
MaxStoreFaults == 1

\* Date.now(): the behaviours of the model take place within one instant.
Now == "now"

UsernameOf == [u \in Users |-> IF u = "u1" THEN <<"A", "n">> ELSE <<"B", "o">>]

\* The word being drawn.
Word == <<"a", "B">>

\* A snapshot of a room as the game service stores it; the drawer is u1.
Snapshot(gameStarted, gamePhase, currentWord) ==
    JSONStringify([gameStarted |-> gameStarted, gamePhase |-> gamePhase,
                   currentDrawer |-> "u1", currentWord |-> currentWord])

\* What the game service may have stored for the rooms: a round being drawn
\* and nothing, a round without a word and a text that does not parse, a
\* round that is not being drawn and a game that has not started.
RoomDataStates ==
    {[R1 |-> Snapshot(TRUE, "drawing", JsString(Word)), R2 |-> NilReply],
     [R1 |-> Snapshot(TRUE, "drawing", JsNull), R2 |-> Garbage],
     [R1 |-> Snapshot(TRUE, "waiting", JsString(Word)),
      R2 |-> Snapshot(FALSE, "drawing", JsString(Word))]}

\* The payloads of join-chat-room: the valid ones, one without roomCode and
\* one with an empty userId.
JoinData ==
    {[roomCode |-> r, userId |-> u, username |-> UsernameOf[u]] :
        r \in Rooms, u \in Users}
    \cup {[roomCode |-> Undefined, userId |-> "u1", username |-> UsernameOf["u1"]],
          [roomCode |-> "R1", userId |-> "", username |-> UndefinedName]}

\* The texts of chat-message: empty, the word with other case and blanks
\* around it, and another text.
Texts == {<<>>, <<" ", "A", "b", " ">>, <<"b">>}

\* redisClient.getRoomData(roomCode): the text stored for the room, or nil.
GetRoomData(roomCode) == roomData[roomCode]

\* Flags that take a game to be active when its state could not be checked.
NoGameButActive == [isGameActive |-> TRUE, isCorrect |-> FALSE, currentWord |-> JsNull]

\* The flags handleChatMessage has when the game state could not be checked.
NoGame == [isGameActive |-> FALSE, isCorrect |-> FALSE, currentWord |-> JsNull]

\* The game-state check that compares the text as typed, without trim().
ClassifyUntrimmed(raw, userId, message) ==
    IF raw.text = "nil" \/ ~IsJSON(raw) THEN NoGame
    ELSE LET room == JSONParse(raw)
             active == room.gameStarted /\ room.gamePhase = "drawing"
         IN  IF active /\ room.currentDrawer # userId /\ Truthy(room.currentWord)
             THEN [isGameActive |-> active,
                   isCorrect |-> ToLowerCase(message) = ToLowerCase(room.currentWord.v),
                   currentWord |-> room.currentWord]
             ELSE [isGameActive |-> active, isCorrect |-> FALSE,
                   currentWord |-> JsNull]

\* The game-state check of handleChatMessage on the text read for the room:
\* nil is skipped, a text that does not parse ends in the inner catch.
Classify(raw, userId, message) ==
    IF raw.text = "nil" \/ ~IsJSON(raw) THEN NoGame
    ELSE LET room == JSONParse(raw)
             active == room.gameStarted /\ room.gamePhase = "drawing"
         IN  IF active /\ room.currentDrawer # userId /\ Truthy(room.currentWord)
             THEN [isGameActive |-> active,
                   isCorrect |-> Trim(ToLowerCase(message))
                                     = ToLowerCase(room.currentWord.v),
                   currentWord |-> room.currentWord]
             ELSE [isGameActive |-> active, isCorrect |-> FALSE,
                   currentWord |-> JsNull]

\* The celebration message built for a correct guess.
CelebrationMessage(task) ==
    [id |-> <<"correct", Now, task.userId>>,
     userId |-> "system",
     username |-> <<"System">>,
     message |-> <<"party ">> \o task.username \o <<" got it! The word was \"">>
                     \o task.currentWord.v \o <<"\" (+points incoming)">>,
     timestamp |-> Now,
     type |-> "correct-guess"]

\* A chat message that is of type message whatever the game state.
ChatMessageObjectPlain(task) ==
    [id |-> <<Now, task.userId>>,
     userId |-> task.userId,
     username |-> task.username,
     message |-> task.message,
     timestamp |-> Now,
     type |-> "message"]

\* The chat message built for any other text.
ChatMessageObject(task) ==
    [id |-> <<Now, task.userId>>,
     userId |-> task.userId,
     username |-> task.username,
     message |-> task.message,
     timestamp |-> Now,
     type |-> IF task.isGameActive THEN "guess" ELSE "message"]

\* if (isCorrect && currentWord)
IsCelebration(task) == task.isCorrect /\ Truthy(task.currentWord)

\* The object handleChatMessage stores and broadcasts.
Outgoing(task) ==
    IF IsCelebration(task) THEN CelebrationMessage(task) ELSE ChatMessageObject(task)

\* A handler that has just been started for socket s.
NewTask(kind, s, pc, outcome, roomCode, userId, username, message) ==
    [kind |-> kind, sock |-> s, pc |-> pc, outcome |-> outcome,
     serial |-> \A k \in 1..Len(tasks) : tasks[k].sock = s => tasks[k].pc = "done",
     faulted |-> FALSE,
     roomCode |-> roomCode, userId |-> userId, username |-> username,
     message |-> message,
     isGameActive |-> FALSE, isCorrect |-> FALSE, currentWord |-> JsNull]

Running == {k \in 1..Len(tasks) : tasks[k].pc # "done"}

\* A socket event can be taken up.
CanStart(s) ==
    /\ Len(tasks) < MaxTasks
    /\ Cardinality(Running) < MaxInFlight

Done(task, outcome) == [task EXCEPT !.pc = "done", !.outcome = outcome]

\* A write that keeps the value a field already has.
HSetKeepFirst(hash, field, value) ==
    [f \in DOMAIN hash \cup {field} |-> IF f \in DOMAIN hash THEN hash[f] ELSE value]

\* HSET key field value
HSet(hash, field, value) ==
    [f \in DOMAIN hash \cup {field} |-> IF f = field THEN value ELSE hash[f]]

\* HDEL key field
HDel(hash, field) == [f \in DOMAIN hash \ {field} |-> hash[f]]

\* !x for a value that is undefined or a string.
Falsy(x) == x = Undefined \/ x = ""

\* A validation that looks at roomCode only.
InvalidJoinRoomOnly(data) == Falsy(data.roomCode)

\* if (!roomCode || !userId)
InvalidJoin(data) == Falsy(data.roomCode) \/ Falsy(data.userId)

\* handleJoinChatRoom up to its first await: validation, then the socket
\* properties are set, the socket joins the room and HSET is sent.
JoinChatRoom(s, data) ==
    /\ connected[s]
    /\ CanStart(s)
    /\ IF InvalidJoin(data)
       THEN /\ tasks' = Append(tasks,
                   NewTask("join", s, "done", "rejected", data.roomCode,
                           data.userId, data.username, <<>>))
            /\ log' = Append(log, EmitToSocket(Len(tasks) + 1, s, "error",
                   [message |-> "Room code and user ID required"]))
            /\ UNCHANGED <<sock, joined>>
       ELSE /\ tasks' = Append(tasks,
                   NewTask("join", s, "hset", "running", data.roomCode,
                           data.userId, data.username, <<>>))
            /\ sock' = [sock EXCEPT ![s] = data]
            /\ joined' = [joined EXCEPT ![s] = @ \cup {data.roomCode}]
            /\ log' = log
    /\ UNCHANGED <<messages, users, calls, connected, faults, RelayFrame>>

\* addUserToRoom is answered: the user is in the hash; LRANGE is sent.
JoinUserStored(t) ==
    /\ tasks[t].kind = "join" /\ tasks[t].pc = "hset"
    /\ users' = [users EXCEPT ![tasks[t].roomCode] =
           HSet(@, tasks[t].userId,
                JSONStringify([username |-> tasks[t].username,
                               socketId |-> tasks[t].sock, joinedAt |-> Now]))]
    /\ log' = Append(log, [task |-> t, op |-> "hset", room |-> tasks[t].roomCode,
                           userId |-> tasks[t].userId])
    /\ tasks' = [tasks EXCEPT ![t] = [@ EXCEPT !.pc = "lrange"]]
    /\ UNCHANGED <<messages, calls, sock, joined, connected, faults, RelayFrame>>

\* getChatHistory is answered: chat-history goes to the socket and
\* user-joined-chat to the others in the room.
JoinHistoryRead(t) ==
    /\ tasks[t].kind = "join" /\ tasks[t].pc = "lrange"
    /\ log' = log
           \o <<EmitToSocket(t, tasks[t].sock, "chat-history",
                    [messages |-> GetChatHistory(messages[tasks[t].roomCode])]),
                EmitToRoom(t, tasks[t].roomCode, tasks[t].sock, "user-joined-chat",
                    [userId |-> tasks[t].userId, username |-> tasks[t].username])>>
    /\ tasks' = [tasks EXCEPT ![t] = Done(@, "ok")]
    /\ UNCHANGED <<messages, users, calls, sock, joined, connected, faults, RelayFrame>>

\* handleChatMessage up to its first await: without a roomCode on the socket
\* or with an empty text it returns, else getRoomData is sent.
ChatMessage(s, text) ==
    /\ connected[s]
    /\ CanStart(s)
    /\ tasks' = Append(tasks,
           IF sock[s].roomCode = Undefined \/ text = <<>>
           THEN NewTask("message", s, "done", "noop", sock[s].roomCode,
                        sock[s].userId, sock[s].username, text)
           ELSE NewTask("message", s, "get", "running", sock[s].roomCode,
                        sock[s].userId, sock[s].username, text))
    /\ UNCHANGED <<messages, users, calls, log, sock, joined, connected, faults,
                   RelayFrame>>

\* getRoomData is answered: the game state is checked and the object to send
\* is decided; LPUSH is sent.
MessageRoomDataRead(t) ==
    /\ tasks[t].kind = "message" /\ tasks[t].pc = "get"
    /\ LET c == Classify(GetRoomData(tasks[t].roomCode), tasks[t].userId,
                         tasks[t].message)
       IN  tasks' = [tasks EXCEPT ![t] =
               [@ EXCEPT !.pc = "lpush", !.isGameActive = c.isGameActive,
                         !.isCorrect = c.isCorrect, !.currentWord = c.currentWord]]
    /\ UNCHANGED <<messages, users, calls, log, sock, joined, connected, faults,
                   RelayFrame>>

\* storeChatMessage, LPUSH answered; LTRIM is sent.
MessagePushed(t) ==
    /\ tasks[t].kind = "message" /\ tasks[t].pc = "lpush"
    /\ messages' = [messages EXCEPT ![tasks[t].roomCode] =
           LPush(@, JSONStringify(Outgoing(tasks[t])))]
    /\ log' = Append(log, [task |-> t, op |-> "lpush", room |-> tasks[t].roomCode,
                           object |-> Outgoing(tasks[t])])
    /\ tasks' = [tasks EXCEPT ![t] = [@ EXCEPT !.pc = "ltrim"]]
    /\ UNCHANGED <<users, calls, sock, joined, connected, faults, RelayFrame>>

\* A handler that calls askGameService before it broadcasts.
MessageTrimmedRpcFirst(t) ==
    /\ tasks[t].kind = "message" /\ tasks[t].pc = "ltrim"
    /\ messages' = [messages EXCEPT ![tasks[t].roomCode] = LTrim(@, 0, TrimStop)]
    /\ log' = log
           \o (IF IsCelebration(tasks[t])
               THEN <<[task |-> t, op |-> "rpc", action |-> "check-guess"]>>
               ELSE <<>>)
           \o <<EmitToRoom(t, tasks[t].roomCode, "none", "chat-message",
                           Outgoing(tasks[t]))>>
    /\ calls' = IF IsCelebration(tasks[t])
                THEN Append(calls, NewCall("check-guess",
                         [roomCode |-> tasks[t].roomCode, userId |-> tasks[t].userId,
                          guess |-> Trim(tasks[t].message)]))
                ELSE calls
    /\ tasks' = [tasks EXCEPT ![t] = Done(@, "ok")]
    /\ UNCHANGED <<users, sock, joined, connected, faults, RelayFrame>>

\* storeChatMessage, LTRIM answered: the object is broadcast to the room;
\* for a correct guess askGameService is called and not awaited.
MessageTrimmed(t) ==
    /\ tasks[t].kind = "message" /\ tasks[t].pc = "ltrim"
    /\ messages' = [messages EXCEPT ![tasks[t].roomCode] = LTrim(@, 0, TrimStop)]
    /\ log' = log
           \o <<EmitToRoom(t, tasks[t].roomCode, "none", "chat-message",
                           Outgoing(tasks[t]))>>
           \o (IF IsCelebration(tasks[t])
               THEN <<[task |-> t, op |-> "rpc", action |-> "check-guess"]>>
               ELSE <<>>)
    /\ calls' = IF IsCelebration(tasks[t])
                THEN Append(calls, NewCall("check-guess",
                         [roomCode |-> tasks[t].roomCode, userId |-> tasks[t].userId,
                          guess |-> Trim(tasks[t].message)]))
                ELSE calls
    /\ tasks' = [tasks EXCEPT ![t] = Done(@, "ok")]
    /\ UNCHANGED <<users, sock, joined, connected, faults, RelayFrame>>

\* handleLeaveChatRoom up to its await: without a roomCode on the socket it
\* returns, else HDEL is sent.
LeaveChatRoom(s) ==
    /\ connected[s]
    /\ CanStart(s)
    /\ tasks' = Append(tasks,
           IF sock[s].roomCode = Undefined
           THEN NewTask("leave", s, "done", "noop", sock[s].roomCode,
                        sock[s].userId, sock[s].username, <<>>)
           ELSE NewTask("leave", s, "hdel", "running", sock[s].roomCode,
                        sock[s].userId, sock[s].username, <<>>))
    /\ UNCHANGED <<messages, users, calls, log, sock, joined, connected, faults,
                   RelayFrame>>

\* removeUserFromRoom is answered in handleLeaveChatRoom: user-left-chat goes
\* to the others in the room and the socket leaves the room.
LeaveUserRemoved(t) ==
    /\ tasks[t].kind = "leave" /\ tasks[t].pc = "hdel"
    /\ users' = [users EXCEPT ![tasks[t].roomCode] = HDel(@, tasks[t].userId)]
    /\ log' = log
           \o <<[task |-> t, op |-> "hdel", room |-> tasks[t].roomCode,
                 userId |-> tasks[t].userId],
                EmitToRoom(t, tasks[t].roomCode, tasks[t].sock, "user-left-chat",
                    [userId |-> tasks[t].userId, username |-> tasks[t].username])>>
    /\ joined' = [joined EXCEPT ![tasks[t].sock] = @ \ {tasks[t].roomCode}]
    /\ tasks' = [tasks EXCEPT ![t] = Done(@, "ok")]
    /\ UNCHANGED <<messages, calls, sock, connected, faults, RelayFrame>>

\* The disconnect event: the transport is closed and the socket has left its
\* rooms; handleDisconnect runs up to its await: with roomCode and userId on
\* the socket HDEL is sent, else it returns. The handler may also be called
\* again for a socket that is already disconnected.
Disconnect(s) ==
    /\ CanStart(s)
    /\ connected' = [connected EXCEPT ![s] = FALSE]
    /\ joined' = [joined EXCEPT ![s] = {}]
    /\ tasks' = Append(tasks,
           IF sock[s].roomCode # Undefined /\ sock[s].userId # Undefined
           THEN NewTask("disconnect", s, "hdel", "running", sock[s].roomCode,
                        sock[s].userId, sock[s].username, <<>>)
           ELSE NewTask("disconnect", s, "done", "noop", sock[s].roomCode,
                        sock[s].userId, sock[s].username, <<>>))
    /\ UNCHANGED <<messages, users, calls, log, sock, faults, RelayFrame>>

\* removeUserFromRoom is answered in handleDisconnect: user-left-chat goes to
\* the others in the room.
DisconnectUserRemoved(t) ==
    /\ tasks[t].kind = "disconnect" /\ tasks[t].pc = "hdel"
    /\ users' = [users EXCEPT ![tasks[t].roomCode] = HDel(@, tasks[t].userId)]
    /\ log' = log
           \o <<[task |-> t, op |-> "hdel", room |-> tasks[t].roomCode,
                 userId |-> tasks[t].userId],
                EmitToRoom(t, tasks[t].roomCode, tasks[t].sock, "user-left-chat",
                    [userId |-> tasks[t].userId, username |-> tasks[t].username])>>
    /\ tasks' = [tasks EXCEPT ![t] = Done(@, "ok")]
    /\ UNCHANGED <<messages, calls, sock, joined, connected, faults, RelayFrame>>

\* The store rejects the command a handler awaits. handleJoinChatRoom
\* answers with an error event; handleChatMessage goes on without a game when
\* the command was getRoomData and gives up otherwise; handleLeaveChatRoom
\* and handleDisconnect give up.
StoreCommandFails(t) ==
    /\ tasks[t].pc \in {"hset", "lrange", "get", "lpush", "ltrim", "hdel"}
    /\ faults < MaxStoreFaults
    /\ faults' = faults + 1
    /\ tasks' = [tasks EXCEPT ![t] =
           IF tasks[t].pc = "get"
           THEN [@ EXCEPT !.pc = "lpush", !.faulted = TRUE]
           ELSE Done([@ EXCEPT !.faulted = TRUE], "failed")]
    /\ log' = IF tasks[t].kind = "join"
              THEN Append(log, EmitToSocket(t, tasks[t].sock, "error",
                       [message |-> "Failed to join chat room"]))
              ELSE log
    /\ UNCHANGED <<messages, users, calls, sock, joined, connected, RelayFrame>>

Next ==
    \/ \E s \in Sockets, data \in JoinData : JoinChatRoom(s, data)
    \/ \E t \in 1..Len(tasks) : JoinUserStored(t)
    \/ \E t \in 1..Len(tasks) : JoinHistoryRead(t)
    \/ \E s \in Sockets, text \in Texts : ChatMessage(s, text)
    \/ \E t \in 1..Len(tasks) : MessageRoomDataRead(t)
    \/ \E t \in 1..Len(tasks) : MessagePushed(t)
    \/ \E t \in 1..Len(tasks) : MessageTrimmed(t)
    \/ \E s \in Sockets : LeaveChatRoom(s)
    \/ \E t \in 1..Len(tasks) : LeaveUserRemoved(t)
    \/ \E s \in Sockets : Disconnect(s)
    \/ \E t \in 1..Len(tasks) : DisconnectUserRemoved(t)
    \/ \E t \in 1..Len(tasks) : StoreCommandFails(t)

\* The service is up, no socket has joined, and the game service may have
\* stored anything for the rooms.
Init ==
    /\ messages = [r \in Rooms |-> <<>>]
    /\ users = [r \in Rooms |-> [u \in {} |-> Undefined]]
    /\ roomData \in RoomDataStates
    /\ ClientInit /\ RpcInit /\ QuietInit /\ ioReady = TRUE /\ BrokerUp

Spec == Init /\ [][Next]_vars

\* ------------------------------------------------------------------------
\* ChatSocketHandler.handleChatMessage with ChatMessageBus.askGameService
\* (SpecNotify)
\* ------------------------------------------------------------------------

\* Both sockets have joined R1, s1 as the drawer u1 and s2 as u2, and a round
\* is being drawn; the log starts here.
InitNotify ==
    /\ ClientInit /\ RpcInit /\ ioReady = TRUE /\ BrokerUp
    /\ roomData = [R1 |-> Snapshot(TRUE, "drawing", JsString(Word)), R2 |-> NilReply]
    /\ users = [r \in Rooms |->
           IF r = "R1"
           THEN [u \in Users |->
                    JSONStringify([username |-> UsernameOf[u],
                                   socketId |-> IF u = "u1" THEN "s1" ELSE "s2",
                                   joinedAt |-> Now])]
           ELSE [u \in {} |-> Undefined]]
    /\ messages = [r \in Rooms |-> <<>>]
    /\ joined = [s \in Sockets |-> {"R1"}]
    /\ sock = [s \in Sockets |->
           LET u == IF s = "s1" THEN "u1" ELSE "u2"
           IN  [roomCode |-> "R1", userId |-> u, username |-> UsernameOf[u]]]
    /\ connected = [s \in Sockets |-> TRUE]
    /\ log = <<>>
    /\ tasks = <<>>
    /\ faults = 0

\* A chat message is taken up while the calls of askGameService made so far
\* and the handlers that may still make one are fewer than MaxCalls.
CallBudgetLeft == Len(calls) + Cardinality(Running) < MaxCalls

\* The chat-message handlers together with the steps of the calls of
\* askGameService they make.
NextNotify ==
    \/ \E s \in Sockets, text \in Texts : CallBudgetLeft /\ ChatMessage(s, text)
    \/ \E t \in 1..Len(tasks) : MessageRoomDataRead(t)
    \/ \E t \in 1..Len(tasks) : MessagePushed(t)
    \/ \E t \in 1..Len(tasks) : MessageTrimmed(t)
    \/ \E t \in 1..Len(tasks) : StoreCommandFails(t)
    \/ \E i \in 1..Len(calls) : AssertQueueOk(i)
    \/ \E i \in 1..Len(calls) : AssertQueueFails(i)
    \/ \E i \in 1..Len(calls) : PublishThrows(i)
    \/ \E i \in 1..Len(calls) : ConsumeOk(i)
    \/ \E i \in 1..Len(calls), fatal \in BOOLEAN : ConsumeFails(i, fatal)
    \/ \E i \in 1..Len(calls) : \E text \in ReplyTexts(i) : GameServiceReplies(i, text)
    \/ \E i \in 1..Len(calls) : DeliverReply(i)
    \/ \E i \in 1..Len(calls) : TimerFires(i)
    \/ Tick

SpecNotify == InitNotify /\ [][NextNotify]_vars

\* ------------------------------------------------------------------------
\* Properties of askGameService (SpecRpc, SpecRpcFair)
\* ------------------------------------------------------------------------

\* Call i received a reply with its own requestId whose data is v.
MatchingReplyDelivered(i, v) ==
    \E k \in 1..Len(calls[i].delivered) :
        /\ IsJSON(calls[i].delivered[k].text)
        /\ Prop(JSONParse(calls[i].delivered[k].text), "requestId") = RequestId(i)
        /\ Prop(JSONParse(calls[i].delivered[k].text), "data") = v

\* The value call i returned is the default or the data of a matching reply.
OutcomeIsReplyOrDefault(i) ==
    calls[i].result # <<>> =>
        \/ calls[i].result[1] = DefaultResponse
        \/ MatchingReplyDelivered(i, calls[i].result[1])

C4_DefaultWithinTimeoutOfCall ==
    \A i \in 1..Len(calls) :
        (calls[i].ready = <<>> /\ calls[i].delivered = <<>>) =>
            calls[i].elapsed <= RpcTimeoutMs

\* C5, as claimed: once a call has its outcome, by a matching reply or by
\* the timeout, its reply queue and the consumer on it are gone from the
\* shared channel.
C5_ReplyResourceReleased ==
    \A i \in 1..Len(calls) :
        (calls[i].pc = "returned" /\ calls[i].resolves # <<>>) =>
            (~calls[i].queue /\ calls[i].consumer = "none")

\* C11, as claimed: a reply delivered on the reply queue of a call whose
\* requestId is not the call's is negatively acknowledged, and it does not
\* resolve the call.
C11_ForeignReplyNacked ==
    \A i \in 1..Len(calls) :
        \A k \in 1..Len(calls[i].delivered) :
            LET d == calls[i].delivered[k]
            IN  (IsJSON(d.text) /\ Prop(JSONParse(d.text), "requestId") # RequestId(i)) =>
                    /\ d.outcome = "nack"
                    /\ \A v \in 1..Len(calls[i].resolves) :
                           calls[i].resolves[v] # Prop(JSONParse(d.text), "data")

\* C12, as claimed: when the timer of a call has fired, a reply that arrives
\* afterwards is not consumed: no reply of the call is acknowledged and
\* resolve is not called again.
C12_LateReplyUnconsumed ==
    \A i \in 1..Len(calls) :
        calls[i].timer = "fired" =>
            /\ Len(calls[i].resolves) = 1
            /\ \A k \in 1..Len(calls[i].delivered) :
                   calls[i].delivered[k].outcome # "ack"

\* A transport failure has hit the call: assertQueue or publish failed (the
\* call returned from the catch block) or channel.consume was rejected.
TransportFailed(call) ==
    \/ call.pc = "returned" /\ call.resolves = <<>>
    \/ call.consumer = "failed"

\* C13, as claimed: a call hit by a transport failure (declaration, publish
\* or consumer registration) returns the default, and nothing escapes it: the
\* call is not cut off by an error it let through.
C13_TransportFailureGivesDefault ==
    \A i \in 1..Len(calls) :
        TransportFailed(calls[i]) =>
            /\ calls[i].pc # "crashed"
            /\ calls[i].pc = "returned" => calls[i].result = <<DefaultResponse>>

\* ------------------------------------------------------------------------
\* Properties of the lifecycle consumer (SpecBus)
\* ------------------------------------------------------------------------

\* Positions of the log entries with operation op for delivery tag.
LogAt(op, tag) == {k \in 1..Len(log) : log[k].op = op /\ log[k].tag = tag}

\* C10: every lifecycle message delivered to the consumer is acknowledged
\* exactly once, and the acknowledgement comes after handleGameEvent has
\* returned for it, also when the content does not parse or the dispatch
\* throws; no delivered message is left unacknowledged.
C10_AckOnceAfterHandled ==
    \A d \in Deliveries :
        /\ Cardinality(LogAt("ack", log[d].tag)) = 1
        /\ Cardinality(LogAt("handled", log[d].tag)) = 1
        /\ \A a \in LogAt("ack", log[d].tag), h \in LogAt("handled", log[d].tag) :
               d < h /\ h < a

\* C10 witness: a message that does not parse and an event whose dispatch
\* throws (new-round without data) were both delivered and acknowledged.
C10_Witness ==
    /\ \E d \in Deliveries :
           /\ log[d].text = Garbage
           /\ LogAt("ack", log[d].tag) # {}
    /\ \E d \in Deliveries :
           /\ IsJSON(log[d].text)
           /\ JSONParse(log[d].text).type = "new-round"
           /\ ~HasProp(JSONParse(log[d].text), "data")
           /\ LogAt("ack", log[d].tag) # {}

\* What the callback did for delivery d between the delivery and the return
\* of handleGameEvent.
EmitsOf(d) ==
    LET h == CHOOSE k \in LogAt("handled", log[d].tag) : TRUE
    IN  SubSeq(log, d + 1, h - 1)

\* A text that is a GameEventEnvelope {type, roomCode, data}.
WellFormed(text) ==
    /\ IsJSON(text)
    /\ HasProp(JSONParse(text), "type")
    /\ HasProp(JSONParse(text), "roomCode")
    /\ HasProp(JSONParse(text), "data")

\* Deliveries of well-formed envelopes made when the socket layer was set up.
Dispatched == {d \in Deliveries : log[d].io /\ WellFormed(log[d].text)}

\* em is one emit of event to the room and to the sockets in it, to no one
\* else.
OneEmitTo(em, room, event) ==
    /\ Len(em) = 1
    /\ em[1].op = "emit"
    /\ em[1].event = event
    /\ em[1].to = room
    /\ em[1].recipients = {s \in Sockets : room \in joined[s]}

\* C22: the dispatch of a well-formed lifecycle envelope emits to the
\* envelope's roomCode and to no other room: game-started one
\* game-mode-changed with isGameStarted true, game-ended one with
\* isGameStarted false, new-round one new-round carrying data.round,
\* game-restarted one game-restarted, correct-guess one system chat-message
\* and only when data.message is present, an unrecognized type nothing; in
\* each case the callback goes on to acknowledge the message.
C22_DispatchPerType ==
    \A d \in Dispatched :
        LET e == JSONParse(log[d].text)
            em == EmitsOf(d)
        IN  /\ LogAt("ack", log[d].tag) # {}
            /\ CASE e.type = "game-started" ->
                       /\ OneEmitTo(em, e.roomCode, "game-mode-changed")
                       /\ em[1].payload.isGameStarted = TRUE
                 [] e.type = "game-ended" ->
                       /\ OneEmitTo(em, e.roomCode, "game-mode-changed")
                       /\ em[1].payload.isGameStarted = FALSE
                 [] e.type = "new-round" ->
                       /\ OneEmitTo(em, e.roomCode, "new-round")
                       /\ Prop(em[1].payload, "round") = Prop(e.data, "round")
                 [] e.type = "game-restarted" ->
                       OneEmitTo(em, e.roomCode, "game-restarted")
                 [] e.type = "correct-guess" ->
                       /\ em # <<>> =>
                              /\ HasProp(e.data, "message")
                              /\ OneEmitTo(em, e.roomCode, "chat-message")
                              /\ em[1].payload.userId = "system"
                              /\ em[1].payload.type = "system"
                              /\ em[1].payload.message = e.data.message
                       /\ (HasProp(e.data, "message") /\ e.data.message # <<>>)
                              => em # <<>>
                 [] OTHER -> em = <<>>

\* C22 witness: with s1 in R1 and s2 in R2, a correct-guess with a message
\* for R1 was dispatched and reached s1 only, and an event of an
\* unrecognized type was dispatched after it and acknowledged.
C22_Witness ==
    /\ \E d \in Dispatched :
           /\ JSONParse(log[d].text).type = "correct-guess"
           /\ JSONParse(log[d].text).roomCode = "R1"
           /\ Len(EmitsOf(d)) = 1
           /\ EmitsOf(d)[1].recipients = {"s1"}
    /\ \E d \in Dispatched :
           /\ JSONParse(log[d].text).type = "player-joined"
           /\ LogAt("ack", log[d].tag) # {}

CallsForBroadcast(text) ==
    /\ WellFormed(text)
    /\ \/ JSONParse(text).type \in
              {"game-started", "game-ended", "new-round", "game-restarted"}
       \/ /\ JSONParse(text).type = "correct-guess"
          /\ HasProp(JSONParse(text).data, "message")
          /\ JSONParse(text).data.message # <<>>

\* C28, as claimed: every well-formed lifecycle event of a recognized type
\* that the service acknowledges has been broadcast to its room first, also
\* when it is delivered between the start of consumption and the setup of
\* the socket layer.
C28_AcknowledgedAfterBroadcast ==
    \A d \in Deliveries :
        (CallsForBroadcast(log[d].text) /\ LogAt("ack", log[d].tag) # {}) =>
            /\ Len(EmitsOf(d)) = 1
            /\ EmitsOf(d)[1].op = "emit"
            /\ EmitsOf(d)[1].to = JSONParse(log[d].text).roomCode

\* ------------------------------------------------------------------------
\* Properties of the socket handlers (Spec)
\* ------------------------------------------------------------------------

\* The log entries made by handler t.
TaskLog(t) == {k \in 1..Len(log) : log[k].task = t}

\* The chat-message broadcasts of handler t.
ChatBroadcasts(t) ==
    {k \in TaskLog(t) : log[k].op = "emit" /\ log[k].event = "chat-message"}

\* The messages handler t has pushed to the history of its room.
Persisted(t) == {k \in TaskLog(t) : log[k].op = "lpush"}

\* The user-left-chat broadcasts of the handlers in ts.
Departures(ts) ==
    {k \in 1..Len(log) : /\ log[k].task \in ts
                         /\ log[k].op = "emit"
                         /\ log[k].event = "user-left-chat"}

\* The membership removals of the handlers in ts.
Removals(ts) == {k \in 1..Len(log) : log[k].task \in ts /\ log[k].op = "hdel"}

\* The handlers started for socket s, in the order of their events.
TasksOf(s) ==
    SelectSeq([k \in 1..Len(tasks) |-> k], LAMBDA k : tasks[k].sock = s)

Last(S) == CHOOSE x \in S : \A y \in S : y <= x

\* The events of ts were of the given kinds in this order, each handled to
\* its end before the next one came, the join accepted, no command rejected.
SerialRun(ts, kinds) ==
    /\ Len(ts) = Len(kinds)
    /\ \A i \in 1..Len(ts) : /\ tasks[ts[i]].kind = kinds[i]
                             /\ tasks[ts[i]].serial
                             /\ tasks[ts[i]].pc = "done"
                             /\ ~tasks[ts[i]].faulted
    /\ tasks[ts[1]].outcome = "ok"

\* The text of the task is a correct guess by the words of the claim: a game
\* is started and being drawn, the sender is not the drawer, and the trimmed,
\* lower-cased text is the lower-cased word.
IsCorrectGuess(task) ==
    /\ task.kind = "message"
    /\ task.outcome # "noop"
    /\ IsJSON(roomData[task.roomCode])
    /\ LET room == JSONParse(roomData[task.roomCode])
       IN  /\ room.gameStarted
           /\ room.gamePhase = "drawing"
           /\ room.currentDrawer # task.userId
           /\ room.currentWord.t = "string"
           /\ Trim(ToLowerCase(task.message)) = ToLowerCase(room.currentWord.v)

\* obj is a correct-guess message of the system that names the guesser and
\* the word.
IsCelebrationFor(obj, task) ==
    /\ obj.type = "correct-guess"
    /\ obj.userId = "system"
    /\ Includes(obj.message, task.username)
    /\ Includes(obj.message, JSONParse(roomData[task.roomCode]).currentWord.v)

\* What a correct guess results in: at most one broadcast, exactly one when
\* the handler is done, to the room, and what is broadcast and what is
\* persisted is the celebration, never the text of the guess.
CelebratedOnce(t) ==
    /\ \A k \in ChatBroadcasts(t) : /\ log[k].to = tasks[t].roomCode
                                    /\ log[k].except = "none"
                                    /\ IsCelebrationFor(log[k].payload, tasks[t])
    /\ \A k \in Persisted(t) : IsCelebrationFor(log[k].object, tasks[t])
    /\ Cardinality(ChatBroadcasts(t)) <= 1
    /\ tasks[t].pc = "done" => Cardinality(ChatBroadcasts(t)) = 1

C7_SecondDisconnectSilent ==
    \A s \in Sockets :
        LET ts == TasksOf(s)
        IN  SerialRun(ts, <<"join", "disconnect", "disconnect">>) =>
                /\ Cardinality(Departures({ts[2], ts[3]})) = 1
                /\ Cardinality(Removals({ts[2], ts[3]})) = 1
                /\ TaskLog(ts[3]) = {}

\* C8: for a connection that joined a room, leave and disconnect, in either
\* order, produce exactly one user-left-chat broadcast, and the second of
\* the two calls does nothing.
C8_LeaveThenDisconnectOneDeparture ==
    \A s \in Sockets :
        LET ts == TasksOf(s)
        IN  (\/ SerialRun(ts, <<"join", "leave", "disconnect">>)
             \/ SerialRun(ts, <<"join", "disconnect", "leave">>)) =>
                /\ Cardinality(Departures({ts[2], ts[3]})) = 1
                /\ TaskLog(ts[3]) = {}

\* The connection is InRoom when its i-th event comes: of the joins that were
\* accepted and the leaves and disconnects before it, the last is a join.
InRoomBefore(ts, i) ==
    LET changes == {j \in 1..(i - 1) :
                       \/ tasks[ts[j]].kind \in {"leave", "disconnect"}
                       \/ tasks[ts[j]].kind = "join" /\ tasks[ts[j]].outcome = "ok"}
    IN  changes # {} /\ tasks[ts[Last(changes)]].kind = "join"

\* C9: a chat-message event persists nothing, broadcasts nothing and issues
\* no RPC when the connection is not InRoom (it never joined, or it joined
\* and then left) or when the text is empty.
C9_NoOpOutsideRoom ==
    \A s \in Sockets :
        LET ts == TasksOf(s)
        IN  \A i \in 1..Len(ts) :
                (/\ tasks[ts[i]].kind = "message"
                 /\ \A j \in 1..i : tasks[ts[j]].serial /\ ~tasks[ts[j]].faulted
                 /\ \/ tasks[ts[i]].message = <<>>
                    \/ ~InRoomBefore(ts, i)) =>
                    TaskLog(ts[i]) = {}

\* The join event of the task lacked roomCode or userId.
LacksRoomOrUser(task) ==
    task.kind = "join" /\ (Falsy(task.roomCode) \/ Falsy(task.userId))

\* The one thing the handler of task t has done is to emit event to its own
\* socket and to nobody else.
OnlyEmitToSelf(t, event) ==
    /\ Cardinality(TaskLog(t)) = 1
    /\ \A k \in TaskLog(t) : /\ log[k].op = "emit"
                             /\ log[k].event = event
                             /\ log[k].to = tasks[t].sock
                             /\ log[k].recipients = {tasks[t].sock}

\* C14: a join-chat-room event without roomCode or userId (missing or empty)
\* emits one error event to the requesting connection only and changes
\* nothing: the properties of the connection, its rooms, the membership maps
\* and the histories stay as they are, and neither chat-history nor
\* user-joined-chat is emitted for it.
C14_InvalidJoinChangesNothing ==
    /\ [](\A t \in 1..Len(tasks) :
            LacksRoomOrUser(tasks[t]) =>
                /\ tasks[t].pc = "done"
                /\ OnlyEmitToSelf(t, "error"))
    /\ [][(/\ Len(tasks') = Len(tasks) + 1
           /\ LacksRoomOrUser(tasks'[Len(tasks')])) =>
              /\ sock' = sock
              /\ joined' = joined
              /\ users' = users
              /\ messages' = messages
              /\ Len(log') = Len(log) + 1]_vars

\* A connection that is in a room sent a join without userId; it was answered
\* with the error event.
C14_Witness ==
    \E t \in 1..Len(tasks) :
        /\ LacksRoomOrUser(tasks[t])
        /\ Falsy(tasks[t].userId)
        /\ sock[tasks[t].sock].roomCode = "R2"
        /\ tasks[t].sock \in {s \in Sockets : "R2" \in joined[s]}
        /\ OnlyEmitToSelf(t, "error")

\* The emits of event made by the handler of task t, as positions of lg.
EmitsIn(lg, t, event) ==
    {k \in 1..Len(lg) : lg[k].task = t /\ lg[k].op = "emit" /\ lg[k].event = event}

\* The join of task t is handled on its own: every earlier event of its
\* socket was handled to its end before it, and no later one has come.
JoinOnItsOwn(t) ==
    /\ tasks[t].serial
    /\ \A k \in 1..Len(tasks) : (k > t) => tasks[k].sock # tasks[t].sock

\* The handler of join task t ends in this step, without an error.
JoinCompletes(t) ==
    /\ tasks[t].kind = "join"
    /\ tasks[t].pc # "done"
    /\ tasks'[t].pc = "done"
    /\ tasks'[t].outcome = "ok"

\* What a join that ends without error has established, in the state it
\* ends in: the connection carries the three values, userId has an entry in
\* the membership map of the room, the connection is subscribed to the room,
\* the requester has got exactly one chat-history event with the whole
\* stored history, oldest first, and exactly one user-joined-chat event was
\* emitted, to the other connections of the room and not the requester.
JoinEstablished(t) ==
    LET s == tasks[t].sock
        room == tasks[t].roomCode
        stored == messages'[room]
        hist == EmitsIn(log', t, "chat-history")
        note == EmitsIn(log', t, "user-joined-chat")
    IN  /\ sock'[s] = [roomCode |-> room, userId |-> tasks[t].userId,
                       username |-> tasks[t].username]
        /\ tasks[t].userId \in DOMAIN users'[room]
        /\ room \in joined'[s]
        /\ Cardinality(hist) = 1
        /\ \A k \in hist :
               /\ log'[k].recipients = {s}
               /\ Len(log'[k].payload.messages) = Len(stored)
               /\ \A n \in 1..Len(stored) :
                      log'[k].payload.messages[n]
                          = JSONParse(stored[Len(stored) + 1 - n])
        /\ Cardinality(note) = 1
        /\ \A k \in note :
               /\ log'[k].to = room
               /\ s \notin log'[k].recipients
               /\ log'[k].recipients = {o \in Sockets : room \in joined'[o]} \ {s}
               /\ log'[k].payload = [userId |-> tasks[t].userId,
                                     username |-> tasks[t].username]

\* No handler has removed the userId of join task t from the room since the
\* handler of t wrote it there.
NotRemovedSince(t) ==
    \A k \in 1..Len(log) :
        (log[k].op = "hdel" /\ log[k].room = tasks[t].roomCode
                            /\ log[k].userId = tasks[t].userId) =>
            \E h \in (k + 1)..Len(log) : log[h].op = "hset" /\ log[h].task = t

StoreOps(op, room, user) ==
    {k \in 1..Len(log) : log[k].op = op /\ log[k].room = room /\ log[k].userId = user}

\* The joins for user in room that have been handled to their end with
\* every store command answered.
JoinsDone(room, user) ==
    {t \in 1..Len(tasks) : /\ tasks[t].kind = "join"
                           /\ tasks[t].roomCode = room
                           /\ tasks[t].userId = user
                           /\ tasks[t].pc = "done"
                           /\ ~tasks[t].faulted}

\* C16: when two different connections have run join for the same
\* (roomCode, userId), their steps interleaved in any order, and nobody has
\* removed the user, the membership map of the room has one entry for the
\* userId (it is a map), the entry names the connection whose HSET came last,
\* and both handlers have ended without an error event.
C16_ConcurrentJoinsLastWriteWins ==
    \A room \in Rooms, user \in Users :
        LET joins == JoinsDone(room, user)
            writes == StoreOps("hset", room, user)
        IN  (/\ \E t1, t2 \in joins : tasks[t1].sock # tasks[t2].sock
             /\ StoreOps("hdel", room, user) = {}) =>
                /\ user \in DOMAIN users[room]
                /\ JSONParse(users[room][user]).socketId
                       = tasks[log[Last(writes)].task].sock
                /\ \A t \in joins : /\ tasks[t].outcome = "ok"
                                    /\ EmitsIn(log, t, "error") = {}

\* Two connections joined R1 as u1 with their steps interleaved: the join
\* that started first wrote last, and the entry names its connection.
C16_Witness ==
    \E t1, t2 \in JoinsDone("R1", "u1") :
        /\ t1 < t2
        /\ tasks[t1].sock # tasks[t2].sock
        /\ StoreOps("hdel", "R1", "u1") = {}
        /\ \E k1, k2 \in StoreOps("hset", "R1", "u1") :
               log[k1].task = t1 /\ log[k2].task = t2 /\ k2 < k1
        /\ JSONParse(users["R1"]["u1"]).socketId = tasks[t1].sock

\* A game is active in the room by the snapshot stored for it: gameStarted
\* and gamePhase is drawing.
GameActive(room) ==
    /\ IsJSON(roomData[room])
    /\ JSONParse(roomData[room]).gameStarted
    /\ JSONParse(roomData[room]).gamePhase = "drawing"

\* The i-th event of ts is a non-empty chat message of a connection that is
\* InRoom, every event of the connection up to it was handled to its end
\* before the next one came, and no store command of theirs was rejected.
MessageInRoom(ts, i) ==
    /\ tasks[ts[i]].kind = "message"
    /\ tasks[ts[i]].message # <<>>
    /\ \A j \in 1..i : tasks[ts[j]].serial /\ ~tasks[ts[j]].faulted
    /\ InRoomBefore(ts, i)

\* obj is the message of the task as it was sent: its text unchanged, its
\* sender, and the given type.
IsVerbatim(obj, task, type) ==
    /\ obj.message = task.message
    /\ obj.userId = task.userId
    /\ obj.username = task.username
    /\ obj.type = type

\* The handler of task t has persisted and broadcast the message as it was
\* sent, with the given type: at most once each, and exactly once each when
\* it is done.
RelayedVerbatim(t, type) ==
    /\ Cardinality(Persisted(t)) <= 1
    /\ Cardinality(ChatBroadcasts(t)) <= 1
    /\ \A k \in Persisted(t) : /\ log[k].room = tasks[t].roomCode
                               /\ IsVerbatim(log[k].object, tasks[t], type)
    /\ \A k \in ChatBroadcasts(t) : /\ log[k].to = tasks[t].roomCode
                                    /\ log[k].except = "none"
                                    /\ IsVerbatim(log[k].payload, tasks[t], type)
    /\ tasks[t].pc = "done" =>
           Cardinality(Persisted(t)) = 1 /\ Cardinality(ChatBroadcasts(t)) = 1

\* C17: a non-empty message of an InRoom connection that is not a correct
\* guess (a message of the drawer that equals the word included) is
\* persisted exactly once and broadcast exactly once to the whole room with
\* its text unchanged, with type guess when a game is active in the room and
\* type message otherwise.
C17_OrdinaryMessageRelayedVerbatim ==
    \A s \in Sockets :
        LET ts == TasksOf(s)
        IN  \A i \in 1..Len(ts) :
                (MessageInRoom(ts, i) /\ ~IsCorrectGuess(tasks[ts[i]])) =>
                    RelayedVerbatim(ts[i],
                        IF GameActive(tasks[ts[i]].roomCode) THEN "guess"
                        ELSE "message")

\* The drawer has sent the word, with blanks around it, while the round is
\* being drawn: it went to the room as a guess, blanks included.
C17_Witness ==
    \E t \in 1..Len(tasks) :
        /\ tasks[t].kind = "message" /\ tasks[t].pc = "done"
        /\ tasks[t].userId = "u1"
        /\ tasks[t].message = <<" ", "A", "b", " ">>
        /\ GameActive(tasks[t].roomCode)
        /\ JSONParse(roomData[tasks[t].roomCode]).currentWord = JsString(Word)
        /\ \E k \in ChatBroadcasts(t) :
               /\ log[k].payload.type = "guess"
               /\ log[k].payload.message = tasks[t].message
               /\ tasks[t].sock \in log[k].recipients

\* The game-state check of the message task has failed: no snapshot is
\* stored for the room, the stored text does not parse, or the read was
\* rejected; and the store has rejected none of the commands after it.
GameCheckFailed(task) ==
    /\ task.kind = "message"
    /\ task.outcome \in {"running", "ok"}
    /\ \/ task.faulted
       \/ roomData[task.roomCode] = NilReply
       \/ ~IsJSON(roomData[task.roomCode])

RpcCalls == {k \in 1..Len(log) : log[k].op = "rpc"}

Relays(t) ==
    /\ tasks[t].kind = "message"
    /\ tasks[t].outcome # "noop"
    /\ ~tasks[t].faulted

\* C24, as claimed: when a connection that is InRoom sends chat-message m1
\* and then m2 to its room, m1 is persisted before m2 and m1's broadcast is
\* made before m2's, whatever the completion order of the store commands.
C24_MessagesOfOneConnectionInOrder ==
    \A s \in Sockets :
        LET ts == TasksOf(s)
        IN  \A i, j \in 1..Len(ts) :
                (/\ i < j
                 /\ InRoomBefore(ts, i)
                 /\ Relays(ts[i]) /\ Relays(ts[j])
                 /\ tasks[ts[i]].roomCode = tasks[ts[j]].roomCode) =>
                    /\ \A q \in Persisted(ts[j]) :
                           \E p \in Persisted(ts[i]) : p < q
                    /\ \A q \in ChatBroadcasts(ts[j]) :
                           \E p \in ChatBroadcasts(ts[i]) : p < q

\* Every event so far was handled to its end before the next event of the
\* same connection came, and no store command was rejected.
AllSerialAndDone ==
    /\ Running = {}
    /\ \A k \in 1..Len(tasks) : tasks[k].serial /\ ~tasks[k].faulted

\* The connection is InRoom now.
InRoomNow(s) ==
    /\ connected[s]
    /\ InRoomBefore(TasksOf(s), Len(TasksOf(s)) + 1)

\* C25, as claimed: after any sequence of join, leave and disconnect events
\* over several connections, every connection that is InRoom(roomCode,
\* userId) has an entry for userId in the membership map of roomCode.
C25_InRoomHasMembershipEntry ==
    AllSerialAndDone =>
        \A s \in Sockets :
            InRoomNow(s) => sock[s].userId \in DOMAIN users[sock[s].roomCode]

\* The rooms whose membership map has an entry written for connection s.
MemberRooms(s) ==
    {r \in Rooms : \E u \in DOMAIN users[r] : JSONParse(users[r][u]).socketId = s}

\* C26, as claimed: a connection is subscribed to at most one room's
\* broadcast group and has a membership entry in at most one room.
C26_AtMostOneRoom ==
    AllSerialAndDone =>
        \A s \in Sockets :
            /\ Cardinality(joined[s]) <= 1
            /\ Cardinality(MemberRooms(s)) <= 1

\* C27, as claimed: when the first join of a connection fails after
\* validation because a store command is rejected, the connection is left
\* as it was: it has no roomCode, it is in no broadcast group, and a later
\* chat-message from it is a no-op.
C27_FailedJoinLeavesConnectionUnchanged ==
    \A s \in Sockets :
        LET ts == TasksOf(s)
        IN  (/\ Len(ts) >= 1
             /\ tasks[ts[1]].kind = "join"
             /\ tasks[ts[1]].outcome = "failed") =>
                /\ Len(ts) = 1 =>
                       /\ sock[s].roomCode = Undefined
                       /\ joined[s] = {}
                /\ (Len(ts) >= 2 /\ tasks[ts[2]].kind = "message") =>
                       TaskLog(ts[2]) = {}

\* ------------------------------------------------------------------------
\* Properties of connectWithRetry (SpecConnect)
\* ------------------------------------------------------------------------

\* The attempts of connectWithRetry that failed so far are the first ones,
\* in order.
FailedInOrder ==
    \A k \in 1..Len(broker.failed) : broker.failed[k].attempt = k

\* C21: connectWithRetry(maxAttempts, backoffMs) makes at most maxAttempts
\* attempts, one after another, and waits backoffMs after each failed
\* attempt except the last; it returns after the first attempt that
\* succeeds and if all attempts fail it throws the last failure without
\* waiting again; once it has returned or thrown it does nothing more.
C21_RetryLoopContract ==
    /\ [](LET nf == Len(broker.failed)
          IN  /\ broker.attempt <= broker.maxRetries
              /\ FailedInOrder
              /\ broker.pc = "attempting" =>
                     /\ broker.attempt = nf + 1
                     /\ broker.slept = nf * broker.retryDelay
              /\ broker.pc = "sleeping" =>
                     /\ broker.attempt = nf
                     /\ nf < broker.maxRetries
                     /\ broker.slept = (nf - 1) * broker.retryDelay
              /\ broker.pc = "returned" =>
                     /\ broker.attempt = nf + 1
                     /\ broker.step = Len(Steps)
                     /\ broker.connection = broker.attempt
                     /\ broker.slept = nf * broker.retryDelay
                     /\ broker.thrown = NoError
              /\ broker.pc = "thrown" =>
                     /\ nf = broker.maxRetries
                     /\ broker.attempt = nf
                     /\ broker.thrown = broker.failed[nf]
                     /\ broker.slept = (nf - 1) * broker.retryDelay)
    /\ [][broker.pc \in {"returned", "thrown"} => broker' = broker]_vars

\* All five attempts failed, the last one at channel.consume:
\* connectWithRetry has thrown that failure after four waits.
C21_Witness ==
    /\ broker.pc = "thrown"
    /\ broker.maxRetries = DefaultMaxRetries
    /\ Len(broker.failed) = DefaultMaxRetries
    /\ broker.thrown = [attempt |-> DefaultMaxRetries, step |-> Len(Steps)]
    /\ broker.slept = (DefaultMaxRetries - 1) * DefaultRetryDelay

\* C29, as claimed: at every point of connectWithRetry and after it returns
\* or throws at most one broker connection opened by this service is open,
\* and a connectWithRetry that has thrown leaves none open.
C29_AtMostOneOpenConnection ==
    /\ Cardinality(broker.open) <= 1
    /\ broker.pc = "thrown" => broker.open = {}

====
